---- MODULE Spec2Model ----
(***************************************************************************)
(* State-machine model of CampTracker (CamperProject): the camper record   *)
(* store of logic.py (one SQLite table behind per-call connections), the   *)
(* validation of models.py and the note / tooltip handlers of gui.py.      *)
(*                                                                         *)
(* Text is modelled as a sequence of one-character strings, so that        *)
(* trimming, case folding, substring search and LIKE matching are computed *)
(* character by character as the code and SQLite compute them.  Ratings    *)
(* are counted in half stars (2.5 stars = 5).                              *)
(***************************************************************************)
EXTENDS Integers, Sequences, FiniteSets, TLC

(***************************************************************************)
(* Bounds of the model                                                     *)
(***************************************************************************)
\* largest value the AUTOINCREMENT sequence may reach
MaxSeq == 3
\* longest batch handed to save_all_campers
MaxBatch == 2
\* last second of the clock
MaxClock == 1
\* longest text typed into the note
MaxNoteLen == 5
\* timers the event loop hands out
MaxJobs == 3
\* longest text typed into the note while suggestions are clicked
MaxSuggestLen == 4
\* keys counted after a hover
MaxStaleEdits == 2
\* event loops entered one inside the other
MaxLoopDepth == 3
\* records submitted while the grid is worked on
MaxGridRecords == 2

(***************************************************************************)
(* Text helpers                                                            *)
(***************************************************************************)
\* str.strip() / str.split() whitespace
IsSpace(c) == c \in {" ", "\n"}

RECURSIVE LStrip(_)
LStrip(s) == IF s # <<>> /\ IsSpace(Head(s)) THEN LStrip(Tail(s)) ELSE s

RECURSIVE RStrip(_)
RStrip(s) ==
  IF s # <<>> /\ IsSpace(s[Len(s)]) THEN RStrip(SubSeq(s, 1, Len(s) - 1)) ELSE s

\* str.strip()
Strip(s) == RStrip(LStrip(s))

\* ASCII case folding, as str.lower() and LIKE do it on the letters used
Uppers == <<"A", "B", "N", "T">>
Lowers == <<"a", "b", "n", "t">>
Fold(c) ==
  IF \E k \in 1..Len(Uppers) : Uppers[k] = c
  THEN Lowers[CHOOSE k \in 1..Len(Uppers) : Uppers[k] = c]
  ELSE c

\* str.lower()
Lower(s) == [k \in 1..Len(s) |-> Fold(s[k])]

\* SQLite's  text LIKE pattern : % matches any run of characters, _ any one
\* character, every other character itself without regard to ASCII case
RECURSIVE Like(_, _)
Like(p, t) ==
  IF p = <<>> THEN t = <<>>
  ELSE IF Head(p) = "%"
       THEN Like(Tail(p), t) \/ (t # <<>> /\ Like(p, Tail(t)))
       ELSE /\ t # <<>>
            /\ (Head(p) = "_" \/ Fold(Head(p)) = Fold(Head(t)))
            /\ Like(Tail(p), Tail(t))

\* float(text): digits, optionally "." and one more digit; the value in
\* half stars, or NotANumber when float() raises ValueError
NotANumber == -1
Digits == {"0", "1", "2", "3", "4", "5"}
DigitVal(c) ==
  CASE c = "0" -> 0 [] c = "1" -> 1 [] c = "2" -> 2
    [] c = "3" -> 3 [] c = "4" -> 4 [] c = "5" -> 5
ParseFloat(t) ==
  LET s == Strip(t) IN
  IF Len(s) = 1 /\ s[1] \in Digits THEN 2 * DigitVal(s[1])
  ELSE IF Len(s) = 3 /\ s[1] \in Digits /\ s[2] = "." /\ s[3] \in {"0", "5"}
       THEN 2 * DigitVal(s[1]) + (IF s[3] = "5" THEN 1 ELSE 0)
       ELSE NotANumber

(***************************************************************************)
(* models.py: UserData                                                     *)
(***************************************************************************)
\* UserData.__init__: every text field but the number is trimmed
UserData(name, number, surname, note, rating, email, status) ==
  [name |-> Strip(name), surname |-> Strip(surname), number |-> number,
   note |-> Strip(note), rating |-> rating, email |-> Strip(email),
   status |-> Strip(status)]

\* VALID_PHONE_CHARS
VALID_PHONE_CHARS ==
  {"0", "1", "2", "3", "4", "5", "6", "7", "8", "9", "-", "+", " ", "(", ")"}

\* UserData.is_valid_phone_input
is_valid_phone_input(number) ==
  \A k \in 1..Len(number) : number[k] \in VALID_PHONE_CHARS

\* len(self.number) > 21
MaxNumberLen == 21
\* self.rating > 5.0, in half stars
MaxRating == 10

\* (mutant) validation without the length check
ValidationErrorNoLength(u) ==
  IF u.name = <<>> THEN "Missing Name"
  ELSE IF u.surname = <<>> THEN "Missing Surname"
  ELSE IF ~is_valid_phone_input(u.number) THEN "Invalid Input"
  ELSE IF u.rating < 0 \/ u.rating > MaxRating THEN "Invalid Rating"
  ELSE ""

\* UserData.is_valid: the title of the error box of the first check that
\* fails, "" when all pass
ValidationError(u) ==
  IF u.name = <<>> THEN "Missing Name"
  ELSE IF u.surname = <<>> THEN "Missing Surname"
  ELSE IF ~is_valid_phone_input(u.number) THEN "Invalid Input"
  ELSE IF Len(u.number) > MaxNumberLen THEN "Too Long"
  ELSE IF u.rating < 0 \/ u.rating > MaxRating THEN "Invalid Rating"
  ELSE ""

is_valid(u) == ValidationError(u) = ""

(***************************************************************************)
(* The campers table: rows keyed by id, UNIQUE(number), AUTOINCREMENT      *)
(***************************************************************************)
VARIABLES
  campers,    \* committed rows of the table: id -> column values
  seq,        \* sqlite_sequence: the largest id handed out so far
  dbState,    \* "ok" (file with the table), "blank" (file, no table), "absent"
  leaked,     \* some connection was left unclosed by the call that opened it
  locked,     \* an unclosed connection still holds the write lock
  lastOp,     \* name of the last operation called
  outcome,    \* "ok", or the exception that left the call
  ignored,    \* INSERT OR IGNORE statements of the last call that added no row
  shown,      \* title of the message box the last operation showed, or ""
  fetched,    \* rows returned by the last fetch_campers
  form,       \* entries, rating_var and status_var of the "Add Camper" tab
  note,       \* text of the note widget
  backups,    \* files of the backups directory: timestamp -> content
  clock,      \* datetime.now(), in seconds
  marks,      \* positions of the note tagged "misspelled"
  tooltipVisible,     \* tooltip_suggestion is placed
  suggestionIndices,  \* _suggestion_indices: <<start, end>>, <<>> for None
  suggestionText,     \* _suggestion_text, <<>> for None
  hoveredWord,        \* the text between the indices when they were recorded
  editsSinceHover,    \* keys pressed in the note since the last hover
  hideJob,    \* _tooltip_hide_job: a timer id, 0 for None
  timers,     \* timers of root.after() still pending
  nextJob,    \* the id the next root.after() returns
  cancelledJobs,  \* timers cancelled while they were pending
  sunken,     \* the status buttons shown with relief "sunken"
  stars,      \* the image of each of the five star labels
  loopDepth,  \* calls of root.mainloop() that have not returned
  search,     \* the four entries of the "Search Campers" tab
  tree,       \* rows of the results grid, each with its eight values
  selection   \* position of the selected row of the grid, 0 for none

storeVars == <<campers, seq, dbState, leaked, locked>>
reportVars == <<lastOp, outcome, ignored, shown>>
formVars == <<form, note, marks>>
backupVars == <<backups, clock>>
suggestionVars ==
  <<tooltipVisible, suggestionIndices, suggestionText, hoveredWord, editsSinceHover>>
timerVars == <<hideJob, timers, nextJob, cancelledJobs>>
tooltipVars == <<suggestionVars, timerVars>>

widgetVars == <<sunken, stars, loopDepth>>
gridVars == <<search, tree, selection>>
uiVars == <<widgetVars, gridVars>>

vars ==
  <<storeVars, reportVars, fetched, formVars, backupVars, tooltipVars,
    uiVars>>

\* column values of a row written from a UserData object
RowOf(u) ==
  [name |-> u.name, surname |-> u.surname, email |-> u.email,
   number |-> u.number, note |-> u.note, rating |-> u.rating,
   status |-> u.status]

\* the UNIQUE(number) index: some row other than `self` holds the number
NumberTaken(rows, number, self) ==
  \E i \in DOMAIN rows : i # self /\ rows[i].number = number

WithRow(rows, id, vals) ==
  [i \in DOMAIN rows \cup {id} |-> IF i = id THEN vals ELSE rows[i]]

\* INSERT INTO campers ... : a new id, or a UNIQUE constraint failure that
\* leaves table and sequence as they were
InsertStmt(db, vals) ==
  IF NumberTaken(db.rows, vals.number, 0)
  THEN [rows |-> db.rows, seq |-> db.seq, err |-> "IntegrityError"]
  ELSE [rows |-> WithRow(db.rows, db.seq + 1, vals), seq |-> db.seq + 1,
        err |-> "none"]

\* (mutant) INSERT OR REPLACE: the row holding the number is deleted and the
\* new row takes its place under a new id
InsertOrReplaceStmt(db, vals) ==
  [rows |-> WithRow([i \in {j \in DOMAIN db.rows :
                              db.rows[j].number # vals.number} |-> db.rows[i]],
                    db.seq + 1, vals),
   seq |-> db.seq + 1, err |-> "none"]

\* INSERT OR IGNORE INTO campers ... : the conflicting row is dropped without
\* an error; the id it was given stays consumed in sqlite_sequence
InsertOrIgnoreStmt(db, vals) ==
  IF NumberTaken(db.rows, vals.number, 0)
  THEN [rows |-> db.rows, seq |-> db.seq + 1, err |-> "none"]
  ELSE [rows |-> WithRow(db.rows, db.seq + 1, vals), seq |-> db.seq + 1,
        err |-> "none"]

\* (mutant) an UPDATE on a table without the UNIQUE(number) index
UpdateStmtNoIndex(db, id, vals) ==
  IF id \notin DOMAIN db.rows
  THEN [rows |-> db.rows, seq |-> db.seq, err |-> "none"]
  ELSE [rows |-> WithRow(db.rows, id, vals), seq |-> db.seq, err |-> "none"]

\* UPDATE campers SET ... WHERE id=? : no row, one row, or a UNIQUE failure
UpdateStmt(db, id, vals) ==
  IF id \notin DOMAIN db.rows
  THEN [rows |-> db.rows, seq |-> db.seq, err |-> "none"]
  ELSE IF NumberTaken(db.rows, vals.number, id)
       THEN [rows |-> db.rows, seq |-> db.seq, err |-> "IntegrityError"]
       ELSE [rows |-> WithRow(db.rows, id, vals), seq |-> db.seq,
             err |-> "none"]

\* DELETE FROM campers WHERE id=?
DeleteByIdStmt(db, id) ==
  [rows |-> [i \in DOMAIN db.rows \ {id} |-> db.rows[i]], seq |-> db.seq,
   err |-> "none"]

\* DELETE FROM campers WHERE number=?
DeleteByNumberStmt(db, number) ==
  [rows |-> [i \in {j \in DOMAIN db.rows : db.rows[j].number # number}
               |-> db.rows[i]],
   seq |-> db.seq, err |-> "none"]

\* the committed database as a connection sees it when it opens
CurrentDb == [rows |-> campers, seq |-> seq]

\* sqlite3.connect() + the first statement: without the table, or while
\* another connection holds the write lock, a writing statement raises
\* OperationalError before it changes anything
CannotWrite(st, lk) == st # "ok" \/ lk

(***************************************************************************)
(* logic.py: the store operations.  Each opens its own connection; the     *)
(* commit() and close() at its end are reached only when no statement      *)
(* raised.  A run yields the table the connection has built, the exception *)
(* (or "none") and whether the connection took the write lock.             *)
(***************************************************************************)
Raised(db, err, wrote) ==
  [rows |-> db.rows, seq |-> db.seq, err |-> err, wrote |-> wrote]

Done(db, wrote) ==
  [rows |-> db.rows, seq |-> db.seq, err |-> "none", wrote |-> wrote]

\* one statement of a connection: it takes the write lock, then succeeds or
\* raises
Execute(r) ==
  IF r.err = "none" THEN Done(r, TRUE) ELSE Raised(r, r.err, TRUE)

\* add_camper(user)
add_camper(db, blocked, user) ==
  IF blocked THEN Raised(db, "OperationalError", FALSE)
  ELSE Execute(InsertStmt(db, RowOf(user)))

\* update_camper(camper_id, user)
update_camper(db, blocked, camper_id, user) ==
  IF blocked THEN Raised(db, "OperationalError", FALSE)
  ELSE Execute(UpdateStmt(db, camper_id, RowOf(user)))

\* delete_camper(camper_id)
delete_camper(db, blocked, camper_id) ==
  IF blocked THEN Raised(db, "OperationalError", FALSE)
  ELSE Execute(DeleteByIdStmt(db, camper_id))

\* delete_camper_by_number(number)
delete_camper_by_number(db, blocked, number) ==
  IF blocked THEN Raised(db, "OperationalError", FALSE)
  ELSE Execute(DeleteByNumberStmt(db, number))

\* an item of a batch without a usable id: item.get("id", None) is falsy
NoId == 0

\* column values save_all_campers binds for an item; float() of the rating
ItemRow(item) ==
  [name |-> item.name, surname |-> item.surname, email |-> item.email,
   number |-> item.number, note |-> item.note,
   rating |-> ParseFloat(item.rating), status |-> item.status]

\* the body of the for loop of save_all_campers for one item: UPDATE when
\* the item has an id; otherwise INSERT OR IGNORE inside try/except
\* IntegrityError
SaveItem(db, item) ==
  IF item.id # NoId
  THEN UpdateStmt(db, item.id, ItemRow(item))
  ELSE LET r == InsertOrIgnoreStmt(db, ItemRow(item)) IN
       IF r.err = "IntegrityError"
       THEN [rows |-> db.rows, seq |-> db.seq, err |-> "none"]
       ELSE r

\* (mutant) the loop with every statement in its own try/except: a failing
\* item is skipped and the loop goes on
RECURSIVE SaveLoopSkipping(_, _, _, _)
SaveLoopSkipping(db, blocked, items, wrote) ==
  IF items = <<>> THEN Done(db, wrote)
  ELSE IF ParseFloat(Head(items).rating) = NotANumber \/ blocked
       THEN SaveLoopSkipping(db, blocked, Tail(items), wrote)
       ELSE LET r == SaveItem(db, Head(items)) IN
            SaveLoopSkipping(IF r.err = "none" THEN r ELSE db, blocked,
                             Tail(items), TRUE)

\* the for loop of save_all_campers over the items left, in one transaction
RECURSIVE SaveLoop(_, _, _, _)
SaveLoop(db, blocked, items, wrote) ==
  IF items = <<>> THEN Done(db, wrote)
  ELSE IF ParseFloat(Head(items).rating) = NotANumber
       THEN Raised(db, "ValueError", wrote)
       ELSE IF blocked THEN Raised(db, "OperationalError", wrote)
            ELSE LET r == SaveItem(db, Head(items)) IN
                 IF r.err # "none" THEN Raised(db, r.err, TRUE)
                 ELSE SaveLoop(r, blocked, Tail(items), TRUE)

\* save_all_campers(items)
save_all_campers(db, blocked, items) == SaveLoop(db, blocked, items, FALSE)

(***************************************************************************)
(* Inputs of the store operations                                          *)
(***************************************************************************)
NameA == <<"a">>
NameB == <<"b">>
Number1 == <<"1">>
Number2 == <<"2">>
SurnameL == <<"L">>
TwoAndHalf == <<"2", ".", "5">>
NotNumeric == <<"x">>

Number3 == <<"3">>

Users ==
  {UserData(n, num, SurnameL, <<>>, 5, <<>>, <<>>) :
     n \in {NameA, NameB}, num \in {Number1, Number2}}

Item(id, name, number, rating) ==
  [id |-> id, name |-> name, surname |-> SurnameL, email |-> <<>>,
   number |-> number, note |-> <<>>, rating |-> rating, status |-> <<>>]

\* items with an id (updates, of rows that exist or not) ...
UpdateItems ==
  {Item(id, nn[1], nn[2], TwoAndHalf) :
     id \in {1, 2},
     nn \in {<<NameB, Number2>>, <<NameA, Number3>>}}

\* ... items without (inserts) ...
InsertItems ==
  {Item(NoId, nn[1], nn[2], TwoAndHalf) :
     nn \in {<<NameA, Number1>>, <<NameB, Number1>>, <<NameA, Number2>>}}

\* ... and one whose rating text is not a number
Items == UpdateItems \cup InsertItems \cup {Item(1, NameA, Number1, NotNumeric)}

\* records and terms of the searches
NameAn == <<"A", "n">>
EmailPercent == <<"a", "%">>

SearchUsers ==
  {UserData(n, num, SurnameL, <<>>, 5, e, <<>>) :
     n \in {NameAn, NameB}, num \in {Number1, Number2},
     e \in {<<>>, EmailPercent}}

SearchTerms ==
  {<<>>, <<"a">>, <<"N">>, <<"a", "n">>, <<"n", "a">>, <<"_">>, <<"%">>}

SearchColumns == {"name", "surname", "email", "number"}

RECURSIVE SeqsUpTo(_, _)
SeqsUpTo(S, n) ==
  IF n = 0 THEN {<<>>}
  ELSE LET shorter == SeqsUpTo(S, n - 1) IN
       shorter \cup {Append(b, x) : b \in {c \in shorter : Len(c) = n - 1},
                                    x \in S}

Batches == SeqsUpTo(Items, MaxBatch)

Ids == 1..MaxSeq

\* ids a run may still hand out under the bound
RECURSIVE CountNoId(_)
CountNoId(items) ==
  IF items = <<>> THEN 0
  ELSE (IF Head(items).id = NoId THEN 1 ELSE 0) + CountNoId(Tail(items))

(***************************************************************************)
(* The store and its connections as a call finds and leaves them           *)
(***************************************************************************)
World ==
  [rows |-> campers, seq |-> seq, dbState |-> dbState, leaked |-> leaked,
   locked |-> locked]

DbOf(w) == [rows |-> w.rows, seq |-> w.seq]

Blocked(w) == CannotWrite(w.dbState, w.locked)

\* the end of a store operation: commit() and close() when nothing raised;
\* otherwise the exception leaves the call, nothing is committed and the
\* connection stays open, with the write lock if it had taken it.
\* sqlite3.connect() has created the file if it was missing.
AfterCall(w, r) ==
  [rows |-> IF r.err = "none" THEN r.rows ELSE w.rows,
   seq |-> IF r.err = "none" THEN r.seq ELSE w.seq,
   dbState |-> IF w.dbState = "absent" THEN "blank" ELSE w.dbState,
   leaked |-> (w.leaked \/ r.err # "none"),
   locked |-> (w.locked \/ (r.err # "none" /\ r.wrote))]

\* ids a committed call consumed without adding a row
IgnoredBy(db, r) ==
  IF r.err = "none"
  THEN (r.seq - db.seq) - Cardinality(DOMAIN r.rows \ DOMAIN db.rows)
  ELSE 0

OutcomeOf(r) == IF r.err = "none" THEN "ok" ELSE r.err

(***************************************************************************)
(* logic.py: fetch_campers                                                 *)
(***************************************************************************)
RECURSIVE InIdOrder(_)
InIdOrder(S) ==
  IF S = {} THEN <<>>
  ELSE LET m == CHOOSE x \in S : \A y \in S : x <= y IN
       <<m>> \o InIdOrder(S \ {m})

\* the dict fetch_campers builds from a row
CamperDict(id, row) ==
  [id |-> id, name |-> row.name, surname |-> row.surname,
   email |-> row.email, number |-> row.number, note |-> row.note,
   rating |-> row.rating, status |-> row.status]

\* the WHERE clause:  <column> LIKE '%<search_term>%' , added only when both
\* the term and the column are given
Selected(rows, search_term, column) ==
  IF search_term # <<>> /\ column # ""
  THEN {i \in DOMAIN rows :
          Like(<<"%">> \o search_term \o <<"%">>, rows[i][column])}
  ELSE DOMAIN rows

\* fetch_campers(search_term, column): a read, which the write lock of
\* another connection does not stop
fetch_campers(w, search_term, column) ==
  IF w.dbState # "ok"
  THEN [run |-> Raised(DbOf(w), "OperationalError", FALSE), result |-> <<>>]
  ELSE LET ids == InIdOrder(Selected(w.rows, search_term, column)) IN
       [run |-> Done(DbOf(w), FALSE),
        result |-> [k \in 1..Len(ids) |-> CamperDict(ids[k], w.rows[ids[k]])]]

(***************************************************************************)
(* logic.py: create_db_backup, and gui.py: run_backup                      *)
(***************************************************************************)
\* the bytes of campers.db: the schema, the committed rows, the sequence
StoreFile(w) ==
  [schema |-> w.dbState = "ok", rows |-> w.rows, seq |-> w.seq]

\* backups/campers_backup_<timestamp>.db written, over a file of that name
WithBackup(files, timestamp, content) ==
  [t \in DOMAIN files \cup {timestamp} |->
     IF t = timestamp THEN content ELSE files[t]]

\* (mutant) the backup file is opened for writing before the source is
\* looked at
create_db_backup_unchecked(w, files, now) ==
  IF w.dbState = "absent"
  THEN [err |-> "FileNotFoundError",
        files |-> WithBackup(files, now, StoreFile(w)), store |-> StoreFile(w)]
  ELSE [err |-> "none", files |-> WithBackup(files, now, StoreFile(w)),
        store |-> StoreFile(w)]

\* create_db_backup(): FileNotFoundError without campers.db; otherwise
\* shutil.copy2 to the name made of the current second
create_db_backup(w, files, now) ==
  IF w.dbState = "absent"
  THEN [err |-> "FileNotFoundError", files |-> files, store |-> StoreFile(w)]
  ELSE [err |-> "none", files |-> WithBackup(files, now, StoreFile(w)),
        store |-> StoreFile(w)]

\* run_backup: the exception is caught and reported in a message box
run_backup(w, files, now) ==
  LET r == create_db_backup(w, files, now) IN
  [err |-> r.err, files |-> r.files, store |-> r.store,
   shown |-> IF r.err = "none" THEN "Backup Successful" ELSE "Backup Failed"]

(***************************************************************************)
(* logic.py: the submit handler of the "Add Camper" form                   *)
(***************************************************************************)
\* clear_entries: every entry emptied, rating_var 0, status_var ""
ClearedForm ==
  [name |-> <<>>, surname |-> <<>>, email |-> <<>>, number |-> <<>>,
   rating |-> 0, status |-> <<>>]

\* the UserData object handle_submit builds from the widgets
SubmittedUser(f, n) ==
  UserData(f.name, f.number, f.surname, n, f.rating, f.email, f.status)

\* handle_submit: validation, then add_camper, then clear_entries, which an
\* exception of add_camper skips.  Yields the run of add_camper (nothing
\* run when validation fails), the widgets afterwards and the error box.
handle_submit(w, f, n) ==
  LET user == SubmittedUser(f, n) IN
  IF is_valid(user)
  THEN LET r == add_camper(DbOf(w), Blocked(w), user) IN
       [called |-> TRUE, run |-> r, world |-> AfterCall(w, r),
        form |-> IF r.err = "none" THEN ClearedForm ELSE f,
        note |-> IF r.err = "none" THEN <<>> ELSE n,
        shown |-> "", outcome |-> OutcomeOf(r)]
  ELSE [called |-> FALSE, run |-> Done(DbOf(w), FALSE), world |-> w,
        form |-> f, note |-> n,
        shown |-> ValidationError(user), outcome |-> "ok"]

(***************************************************************************)
(* Inputs of the form                                                      *)
(***************************************************************************)
\* a number of 21 characters and one of 22
RECURSIVE Repeat(_, _)
Repeat(c, n) == IF n = 0 THEN <<>> ELSE <<c>> \o Repeat(c, n - 1)

LongestNumber == Repeat("7", MaxNumberLen)
TooLongNumber == Repeat("7", MaxNumberLen + 1)
BadCharNumber == <<"1", "x">>
PaddedName == <<" ", "a", " ">>
BlankName == <<" ">>
\* 5.5 stars and -1 star, in half stars
RatingAbove == MaxRating + 1
RatingBelow == 0 - 2

FormInputs ==
  [name : {PaddedName, BlankName},
   surname : {SurnameL, <<>>},
   email : {<<>>},
   number : {Number1, LongestNumber, BadCharNumber, TooLongNumber},
   rating : {5, RatingAbove, RatingBelow},
   status : {<<>>}]

NoteInputs == {<<"o", "k", " ">>}

(***************************************************************************)
(* The note: sym_spell.lookup, check_spelling and the "misspelled" tag     *)
(***************************************************************************)
\* the words of the frequency dictionary, the most frequent first
DictWords == << <<"a", "b">>, <<"b", "a">> >>

\* max_edit_distance of both lookups
MaxEditDistance == 2

Min2(x, y) == IF x <= y THEN x ELSE y

\* optimal string alignment distance of a[1..i] and b[1..j]: insertions,
\* deletions, substitutions and transpositions of adjacent characters
RECURSIVE Osa(_, _, _, _)
Osa(a, b, i, j) ==
  IF i = 0 THEN j
  ELSE IF j = 0 THEN i
  ELSE LET edit == Min2(Osa(a, b, i - 1, j - 1) + (IF a[i] = b[j] THEN 0 ELSE 1),
                        Min2(Osa(a, b, i - 1, j) + 1, Osa(a, b, i, j - 1) + 1))
       IN IF i > 1 /\ j > 1 /\ a[i] = b[j - 1] /\ a[i - 1] = b[j]
          THEN Min2(edit, Osa(a, b, i - 2, j - 2) + 1)
          ELSE edit

EditDistance(a, b) == Osa(a, b, Len(a), Len(b))

\* sym_spell.lookup(phrase, Verbosity.CLOSEST, max_edit_distance=2): the
\* phrase itself when it is a dictionary word, otherwise the dictionary words
\* at the smallest distance found within the limit, the most frequent first
lookup(phrase) ==
  IF \E k \in 1..Len(DictWords) : DictWords[k] = phrase
  THEN <<phrase>>
  ELSE LET near == {d \in 1..MaxEditDistance :
                      \E k \in 1..Len(DictWords) :
                        EditDistance(phrase, DictWords[k]) = d}
       IN IF near = {} THEN <<>>
          ELSE LET closest == CHOOSE d \in near : \A e \in near : d <= e
               IN SelectSeq(DictWords,
                            LAMBDA w : EditDistance(phrase, w) = closest)

\* str.split(): the runs of characters between whitespace
RECURSIVE Split(_)
Split(s) ==
  LET t == LStrip(s) IN
  IF t = <<>> THEN <<>>
  ELSE LET stop == IF \E k \in 1..Len(t) : IsSpace(t[k])
                   THEN CHOOSE k \in 1..Len(t) :
                          IsSpace(t[k]) /\ \A m \in 1..(k - 1) : ~IsSpace(t[m])
                   ELSE Len(t) + 1
       IN <<SubSeq(t, 1, stop - 1)>> \o Split(SubSeq(t, stop, Len(t)))

\* widget.search(word, start, stopindex="end"): the first position not before
\* start where the text reads word, 0 when there is none
Search(text, word, start) ==
  LET hits == {k \in start..(Len(text) - Len(word) + 1) :
                 SubSeq(text, k, k + Len(word) - 1) = word}
  IN IF hits = {} THEN 0 ELSE CHOOSE k \in hits : \A m \in hits : k <= m

\* does check_spelling flag this word
Unknown(word) ==
  LET suggestions == lookup(Lower(word)) IN
  suggestions = <<>> \/ suggestions[1] # Lower(word)

\* the loop of check_spelling over the words
RECURSIVE MarkWords(_, _, _, _)
MarkWords(text, words, start, tagged) ==
  IF words = <<>> THEN tagged
  ELSE LET word == Head(words)
           pos == Search(text, word, start)
       IN IF Unknown(word) /\ pos # 0
          THEN MarkWords(text, Tail(words), pos + Len(word),
                         tagged \cup (pos..(pos + Len(word) - 1)))
          ELSE MarkWords(text, Tail(words), start, tagged)

\* check_spelling(event) on the text of the note: the positions tagged
check_spelling(text) == MarkWords(text, Split(text), 1, {})

\* the Text widget inserts a character after position p: the tags move with
\* their characters, and the new character is tagged when both neighbours are
InsertAt(text, p, c) ==
  SubSeq(text, 1, p) \o <<c>> \o SubSeq(text, p + 1, Len(text))

TagsAfterInsert(tagged, p) ==
  {m \in tagged : m <= p} \cup {m + 1 : m \in {n \in tagged : n > p}}
    \cup (IF p \in tagged /\ (p + 1) \in tagged THEN {p + 1} ELSE {})

\* the Text widget deletes the character at position p
DeleteAt(text, p) == SubSeq(text, 1, p - 1) \o SubSeq(text, p + 1, Len(text))

TagsAfterDelete(tagged, p) ==
  {m \in tagged : m < p} \cup {m - 1 : m \in {n \in tagged : n > p}}

\* the characters typed into the note
NoteChars == {"a", "b", "B", " "}

(***************************************************************************)
(* The suggestion tooltip and its hide timer                               *)
(***************************************************************************)
\* the text shown when lookup finds nothing
NoSuggestion == <<"No suggestion">>

\* Tk's word characters
IsWordChar(c) == ~IsSpace(c)

\* "index wordstart" and "index wordend": a run of word characters around the
\* position, or the one character there; the end is the position after it
WordStart(text, i) ==
  IF ~IsWordChar(text[i]) THEN i
  ELSE CHOOSE k \in 1..i :
         /\ \A m \in k..i : IsWordChar(text[m])
         /\ (k = 1 \/ ~IsWordChar(text[k - 1]))

WordEnd(text, i) ==
  IF ~IsWordChar(text[i]) THEN i + 1
  ELSE CHOOSE k \in (i + 1)..(Len(text) + 1) :
         /\ \A m \in i..(k - 1) : IsWordChar(text[m])
         /\ (k = Len(text) + 1 \/ ~IsWordChar(text[k]))

\* the timer state of the tooltip
HideTimer ==
  [hideJob |-> hideJob, timers |-> timers, nextJob |-> nextJob,
   cancelledJobs |-> cancelledJobs]

\* cancel_hide_tooltip(): after_cancel of the job kept, which is then forgotten
cancel_hide_tooltip(t) ==
  IF t.hideJob # 0
  THEN [t EXCEPT !.timers = @ \ {t.hideJob},
                 !.cancelledJobs = @ \cup ({t.hideJob} \cap t.timers),
                 !.hideJob = 0]
  ELSE t

\* root.after(300, tooltip_suggestion.place_forget), its id kept
AfterHide(t) ==
  [t EXCEPT !.hideJob = t.nextJob,
            !.timers = @ \cup {t.nextJob},
            !.nextJob = @ + 1]

\* schedule_hide_tooltip() without its first line
schedule_hide_tooltip_keeping(t) == AfterHide(t)

\* schedule_hide_tooltip()
schedule_hide_tooltip(t) == AfterHide(cancel_hide_tooltip(t))

\* display_word_suggestion(event) with the pointer over position i
display_word_suggestion(text, i) ==
  LET word_start == WordStart(text, i)
      word_end == WordEnd(text, i)
      word == Strip(SubSeq(text, word_start, word_end - 1))
      suggestions == lookup(word)
      suggestion_text == IF suggestions # <<>> THEN suggestions[1]
                         ELSE NoSuggestion
  IN [indices |-> <<word_start, word_end>>, text |-> suggestion_text,
      hovered |-> SubSeq(text, word_start, word_end - 1)]

\* str.isupper(), str.islower(), str.istitle() on the letters used
IsUpperChar(c) == \E k \in 1..Len(Uppers) : Uppers[k] = c
IsLowerChar(c) == \E k \in 1..Len(Lowers) : Lowers[k] = c
IsCased(c) == IsUpperChar(c) \/ IsLowerChar(c)

isupper(s) ==
  /\ \E k \in 1..Len(s) : IsUpperChar(s[k])
  /\ \A k \in 1..Len(s) : ~IsLowerChar(s[k])

islower(s) ==
  /\ \E k \in 1..Len(s) : IsLowerChar(s[k])
  /\ \A k \in 1..Len(s) : ~IsUpperChar(s[k])

\* uppercase letters only after uncased characters, lowercase letters only
\* after cased ones, and at least one letter
istitle(s) ==
  /\ \E k \in 1..Len(s) : IsCased(s[k])
  /\ \A k \in 1..Len(s) :
       /\ IsUpperChar(s[k]) => (k = 1 \/ ~IsCased(s[k - 1]))
       /\ IsLowerChar(s[k]) => (k > 1 /\ IsCased(s[k - 1]))

\* str.upper(), str.capitalize()
Unfold(c) ==
  IF IsLowerChar(c)
  THEN Uppers[CHOOSE k \in 1..Len(Lowers) : Lowers[k] = c]
  ELSE c

Upper(s) == [k \in 1..Len(s) |-> Unfold(s[k])]

Capitalize(s) ==
  [k \in 1..Len(s) |-> IF k = 1 THEN Unfold(s[k]) ELSE Fold(s[k])]

\* match_capitalization(original, suggestion)
match_capitalization(original, suggestion) ==
  IF isupper(original) THEN Upper(suggestion)
  ELSE IF istitle(original) THEN Capitalize(suggestion)
  ELSE IF islower(original) THEN Lower(suggestion)
  ELSE suggestion

\* an index of the Text widget past the end of the text is the end
Clamp(text, i) == Min2(i, Len(text) + 1)

\* note_entry.delete(first, last): the characters first .. last - 1 go, with
\* their tags
DeleteRange(text, first, last) ==
  IF first < last
  THEN SubSeq(text, 1, first - 1) \o SubSeq(text, last, Len(text))
  ELSE text

TagsAfterDeleteRange(tagged, first, last) ==
  IF first < last
  THEN {m \in tagged : m < first}
         \cup {m - (last - first) : m \in {n \in tagged : n >= last}}
  ELSE tagged

\* note_entry.insert(at, chars): chars go before position at, tagged when
\* the characters on both sides are
InsertRange(text, at, chars) ==
  SubSeq(text, 1, at - 1) \o chars \o SubSeq(text, at, Len(text))

TagsAfterInsertRange(tagged, at, n) ==
  {m \in tagged : m < at} \cup {m + n : m \in {k \in tagged : k >= at}}
    \cup (IF (at - 1) \in tagged /\ at \in tagged
          THEN at..(at + n - 1) ELSE {})

\* the note, its tags and the tooltip as replace_with_suggestion reads them
NoteView ==
  [note |-> note, marks |-> marks, visible |-> tooltipVisible,
   indices |-> suggestionIndices, suggestion |-> suggestionText]

Actionable(v) ==
  v.indices # <<>> /\ v.suggestion # <<>> /\ v.suggestion # NoSuggestion

\* the body of replace_with_suggestion, whatever the suggestion is
Replace(v) ==
  LET first == Clamp(v.note, v.indices[1])
      last == Clamp(v.note, v.indices[2])
      original_word == SubSeq(v.note, first, last - 1)
      replacement == match_capitalization(original_word, v.suggestion)
      cut == DeleteRange(v.note, first, last)
      cutTags == TagsAfterDeleteRange(v.marks, first, last)
  IN [note |-> InsertRange(cut, first, replacement),
      marks |-> TagsAfterInsertRange(cutTags, first, Len(replacement)),
      visible |-> FALSE,
      replaced |-> TRUE,
      removed |-> original_word,
      replacement |-> replacement]

Ignored(v) ==
  [note |-> v.note, marks |-> v.marks, visible |-> v.visible,
   replaced |-> FALSE, removed |-> <<>>, replacement |-> <<>>]

\* replace_with_suggestion without the test for "No suggestion"
replace_with_suggestion_any(v) ==
  IF v.indices # <<>> /\ v.suggestion # <<>> THEN Replace(v) ELSE Ignored(v)

\* replace_with_suggestion(event): the closing check_spelling() is called
\* without an event and returns at once
replace_with_suggestion(v) ==
  IF Actionable(v) THEN Replace(v) ELSE Ignored(v)

(***************************************************************************)
(* The rating stars and the status buttons of the form                     *)
(***************************************************************************)
\* the images set_rating gives the five stars for a rating in half stars
StarImages(value) ==
  [i \in 0..4 |->
     IF i < value \div 2 THEN "full"
     ELSE IF i = value \div 2 /\ value % 2 = 1 THEN "half"
     ELSE "empty"]

Green == <<"g", "r", "e", "e", "n">>
Yellow == <<"y", "e", "l", "l", "o", "w">>
Red == <<"r", "e", "d">>
\* the keys of status_buttons
Colours == {Green, Yellow, Red}

\* a click with the left button on star pos gives pos + 1 stars, one with the
\* right button pos + 0.5, in half stars
StarClicks == {2 * (pos + 1) : pos \in 0..4} \cup {2 * pos + 1 : pos \in 0..4}

\* what is typed into the four entries
EntryInputs ==
  [name : {PaddedName, BlankName}, surname : {SurnameL}, email : {<<>>},
   number : {Number1}]

(***************************************************************************)
(* gui.py: the "Search Campers" tab and its results grid                   *)
(***************************************************************************)
DigitChar(d) ==
  CASE d = 0 -> "0" [] d = 1 -> "1" [] d = 2 -> "2"
    [] d = 3 -> "3" [] d = 4 -> "4" [] d = 5 -> "5"

\* the text of a float that is a number of half stars: "2.5", "3.0"
FormatFloat(h) ==
  <<DigitChar(h \div 2), ".", IF h % 2 = 1 THEN "5" ELSE "0">>

\* the values of the grid row perform_search inserts for a fetched record;
\* the id is the eighth, in a column of width 0
TreeRow(result) ==
  [id |-> result.id, name |-> result.name, surname |-> result.surname,
   email |-> result.email, number |-> result.number, note |-> result.note,
   rating |-> FormatFloat(result.rating), status |-> result.status]

ClearedSearch ==
  [name |-> <<>>, surname |-> <<>>, email |-> <<>>, number |-> <<>>]

\* the column perform_search searches: that of the first entry which is not
\* blank, "" when all four are
SearchColumn(s) ==
  IF Strip(s.name) # <<>> THEN "name"
  ELSE IF Strip(s.surname) # <<>> THEN "surname"
  ELSE IF Strip(s.email) # <<>> THEN "email"
  ELSE IF Strip(s.number) # <<>> THEN "number"
  ELSE ""

\* perform_search: the grid is emptied, then filled with the records
\* fetch_campers returns
perform_search(w, s) ==
  LET column == SearchColumn(s)
      f == IF column = "" THEN fetch_campers(w, <<>>, "")
           ELSE fetch_campers(w, Strip(s[column]), column)
  IN [run |-> f.run,
      tree |-> [k \in 1..Len(f.result) |-> TreeRow(f.result[k])]]

\* the columns with a width, whose cells a double click can reach
EditableColumns ==
  {"name", "surname", "email", "number", "note", "rating", "status"}

\* on_double_click: key validation is attached to the entry placed over a
\* cell of column "#3", which is the email
KeyValidated(column) == column = "email"

\* save_edit of on_double_click: the text of the entry becomes the value of
\* the cell; the other values of the row, the id among them, are kept
on_double_click(rows, k, column, new_value) ==
  [rows EXCEPT ![k] = [@ EXCEPT ![column] = new_value]]

\* save_changes: every row of the grid is handed to save_all_campers
save_changes(w, rows) == save_all_campers(DbOf(w), Blocked(w), rows)

\* edit_selected: the entries of the edit window as it opens on a row; a
\* rating that float() refuses is shown as 0.0
EditWindow(row) ==
  [name |-> row.name, surname |-> row.surname, email |-> row.email,
   number |-> row.number, note |-> row.note,
   rating |-> IF ParseFloat(row.rating) = NotANumber THEN 0
              ELSE ParseFloat(row.rating),
   status |-> row.status]

\* new_values of save_edit of edit_selected
WindowRow(id, e) ==
  [id |-> id, name |-> e.name, surname |-> e.surname, email |-> e.email,
   number |-> e.number, note |-> Strip(e.note),
   rating |-> FormatFloat(e.rating), status |-> e.status]

\* save_edit of edit_selected on row k with entries e: the row takes the
\* values of the window, then every row of the grid is handed to
\* save_all_campers
edit_selected(w, rows, k, e) ==
  LET edited == [rows EXCEPT ![k] = WindowRow(rows[k].id, e)] IN
  [tree |-> edited, run |-> save_all_campers(DbOf(w), Blocked(w), edited)]

\* delete_selected_camper on row k: nothing when the number cell is empty;
\* otherwise delete_camper_by_number of the number cell, then perform_search
delete_selected_camper(w, rows, k, s) ==
  LET number == rows[k].number IN
  IF number = <<>>
  THEN [called |-> FALSE, run |-> Done(DbOf(w), FALSE), world |-> w,
        tree |-> rows, selection |-> k]
  ELSE LET d == delete_camper_by_number(DbOf(w), Blocked(w), number)
           w1 == AfterCall(w, d)
       IN IF d.err # "none"
          THEN [called |-> TRUE, run |-> d, world |-> w1, tree |-> rows,
                selection |-> k]
          ELSE LET p == perform_search(w1, s) IN
               [called |-> TRUE, run |-> p.run, world |-> AfterCall(w1, p.run),
                tree |-> p.tree, selection |-> 0]

\* what is typed into the search entries
SearchInputs ==
  {ClearedSearch, [ClearedSearch EXCEPT !.number = Number2]}

\* the forms submitted to fill the store
GridForms ==
  {[ClearedForm EXCEPT !.name = NameA, !.surname = SurnameL,
                       !.number = Number1],
   [ClearedForm EXCEPT !.name = NameB, !.surname = SurnameL,
                       !.number = Number2]}

\* what is typed into a cell of the grid
BadNumber == <<"x">>
CellInputs ==
  {<<"number", Number2>>, <<"number", BadNumber>>, <<"number", <<>>>>}

\* what the user changes in the edit window: nothing, or the name
EditInputs(e) == {e, [e EXCEPT !.name = NameB]}

(***************************************************************************)
(* Initial state: init_db() has run at import, the table is empty, the     *)
(* form is empty                                                           *)
(***************************************************************************)
Init ==
  /\ campers = <<>>
  /\ seq = 0
  /\ dbState = "ok"
  /\ leaked = FALSE
  /\ locked = FALSE
  /\ lastOp = "init_db"
  /\ outcome = "ok"
  /\ ignored = 0
  /\ shown = ""
  /\ fetched = <<>>
  /\ form = ClearedForm
  /\ note = <<>>
  /\ backups = <<>>
  /\ clock = 0
  /\ marks = {}
  /\ tooltipVisible = FALSE
  /\ suggestionIndices = <<>>
  /\ suggestionText = <<>>
  /\ hoveredWord = <<>>
  /\ editsSinceHover = 0
  /\ hideJob = 0
  /\ timers = {}
  /\ nextJob = 1
  /\ cancelledJobs = {}
  /\ sunken = {}
  /\ stars = StarImages(0)
  /\ loopDepth = 1
  /\ search = ClearedSearch
  /\ tree = <<>>
  /\ selection = 0

SetWorld(w) ==
  /\ campers' = w.rows
  /\ seq' = w.seq
  /\ dbState' = w.dbState
  /\ leaked' = w.leaked
  /\ locked' = w.locked

\* a direct call of a store operation of logic.py
Return(op, r) ==
  /\ SetWorld(AfterCall(World, r))
  /\ lastOp' = op
  /\ outcome' = OutcomeOf(r)
  /\ ignored' = IgnoredBy(DbOf(World), r)
  /\ shown' = ""

AddCamper(user) ==
  /\ seq < MaxSeq
  /\ Return("add_camper", add_camper(DbOf(World), Blocked(World), user))
  /\ UNCHANGED <<fetched, formVars, backupVars, tooltipVars, uiVars>>

UpdateCamper(camper_id, user) ==
  /\ Return("update_camper",
            update_camper(DbOf(World), Blocked(World), camper_id, user))
  /\ UNCHANGED <<fetched, formVars, backupVars, tooltipVars, uiVars>>

DeleteCamper(camper_id) ==
  /\ Return("delete_camper",
            delete_camper(DbOf(World), Blocked(World), camper_id))
  /\ UNCHANGED <<fetched, formVars, backupVars, tooltipVars, uiVars>>

DeleteCamperByNumber(number) ==
  /\ Return("delete_camper_by_number",
            delete_camper_by_number(DbOf(World), Blocked(World), number))
  /\ UNCHANGED <<fetched, formVars, backupVars, tooltipVars, uiVars>>

SaveAllCampers(items) ==
  /\ seq + CountNoId(items) <= MaxSeq
  /\ Return("save_all_campers",
            save_all_campers(DbOf(World), Blocked(World), items))
  /\ UNCHANGED <<fetched, formVars, backupVars, tooltipVars, uiVars>>

\* the Python runtime reclaims the unclosed connections: their uncommitted
\* work is rolled back and the write lock is released
ReclaimConnection ==
  /\ leaked
  /\ leaked' = FALSE
  /\ locked' = FALSE
  /\ UNCHANGED <<campers, seq, dbState, reportVars, fetched, formVars, backupVars,
               tooltipVars, uiVars>>

\* the user fills the entries, the note, the rating and the status
FillForm(f, n) ==
  /\ form' = f
  /\ note' = n
  /\ marks' = check_spelling(n)
  /\ UNCHANGED <<storeVars, reportVars, fetched, backupVars, tooltipVars, uiVars>>

\* the Submit button
HandleSubmit ==
  LET s == handle_submit(World, form, note) IN
  /\ s.called => seq < MaxSeq
  /\ SetWorld(s.world)
  /\ form' = s.form
  /\ note' = s.note
  /\ lastOp' = "handle_submit"
  /\ outcome' = s.outcome
  /\ ignored' = 0
  /\ shown' = s.shown
  /\ marks' = IF s.note = note THEN marks ELSE {}
  /\ UNCHANGED <<fetched, backupVars, tooltipVars, uiVars>>

\* fetch_campers(search_term, column), called directly
FetchCampers(search_term, column) ==
  LET f == fetch_campers(World, search_term, column) IN
  /\ Return("fetch_campers", f.run)
  /\ fetched' = f.result
  /\ UNCHANGED <<formVars, backupVars, tooltipVars, uiVars>>

\* the "Backup Database" button
RunBackup ==
  LET r == run_backup(World, backups, clock) IN
  /\ backups' = r.files
  /\ lastOp' = "run_backup"
  /\ outcome' = "ok"
  /\ ignored' = 0
  /\ shown' = r.shown
  /\ UNCHANGED <<storeVars, fetched, formVars, clock, tooltipVars, uiVars>>

\* a second passes
Tick ==
  /\ clock < MaxClock
  /\ clock' = clock + 1
  /\ UNCHANGED <<storeVars, reportVars, fetched, formVars, backups, tooltipVars,
                 uiVars>>

\* campers.db is removed from outside the program; a connection left open
\* keeps the removed file, so its lock is no lock on the next file
RemoveStoreFile ==
  /\ dbState # "absent"
  /\ dbState' = "absent"
  /\ campers' = <<>>
  /\ seq' = 0
  /\ locked' = FALSE
  /\ UNCHANGED <<leaked, reportVars, fetched, formVars, backupVars, tooltipVars, uiVars>>

SetHideTimer(t) ==
  /\ hideJob' = t.hideJob
  /\ timers' = t.timers
  /\ nextJob' = t.nextJob
  /\ cancelledJobs' = t.cancelledJobs

\* a key pressed in the note after a hover is counted
CountEdit ==
  /\ editsSinceHover' = IF suggestionIndices # <<>>
                        THEN Min2(editsSinceHover + 1, MaxStaleEdits)
                        ELSE editsSinceHover
  /\ UNCHANGED <<tooltipVisible, suggestionIndices, suggestionText, hoveredWord,
                 timerVars>>

Report(op, result) ==
  /\ lastOp' = op
  /\ outcome' = result
  /\ ignored' = 0
  /\ shown' = ""

\* a key pressed in the note with the cursor after position p: <space> and
\* <Return> run check_spelling, then the widget inserts the character
KeyPress(c, p) ==
  /\ Len(note) < MaxNoteLen
  /\ p \in 0..Len(note)
  /\ note' = InsertAt(note, p, c)
  /\ marks' = TagsAfterInsert(IF IsSpace(c) THEN check_spelling(note) ELSE marks, p)
  /\ Report(IF IsSpace(c) THEN "check_spelling" ELSE "key", "ok")
  /\ CountEdit
  /\ UNCHANGED <<storeVars, fetched, form, backupVars, uiVars>>

\* BackSpace with the cursor after position p
BackSpace(p) ==
  /\ p \in 1..Len(note)
  /\ note' = DeleteAt(note, p)
  /\ marks' = TagsAfterDelete(marks, p)
  /\ Report("key", "ok")
  /\ CountEdit
  /\ UNCHANGED <<storeVars, fetched, form, backupVars, uiVars>>

\* <Enter> on the tag "misspelled", the pointer over position i
DisplayWordSuggestion(i) ==
  /\ i \in marks
  /\ LET d == display_word_suggestion(note, i) IN
       /\ tooltipVisible' = TRUE
       /\ suggestionIndices' = d.indices
       /\ suggestionText' = d.text
       /\ hoveredWord' = d.hovered
       /\ editsSinceHover' = 0
  /\ SetHideTimer(cancel_hide_tooltip(HideTimer))
  /\ Report("display_word_suggestion", "ok")
  /\ UNCHANGED <<storeVars, fetched, formVars, backupVars, uiVars>>

\* a hide is scheduled: one more timer, as long as the loop hands them out
ScheduleHide(op) ==
  /\ nextJob <= MaxJobs
  /\ SetHideTimer(schedule_hide_tooltip(HideTimer))
  /\ Report(op, IF hideJob \in timers THEN "rescheduled" ELSE "ok")
  /\ UNCHANGED <<storeVars, fetched, formVars, backupVars, suggestionVars, uiVars>>

\* <Leave> on the tag "misspelled"
HideWordSuggestion == ScheduleHide("hide_word_suggestion")

\* <Leave> on the tooltip
TooltipLeave == ScheduleHide("schedule_hide_tooltip")

\* <Enter> on the tooltip, which is there to enter
TooltipEnter ==
  /\ tooltipVisible
  /\ SetHideTimer(cancel_hide_tooltip(HideTimer))
  /\ Report("cancel_hide_tooltip", "ok")
  /\ UNCHANGED <<storeVars, fetched, formVars, backupVars, suggestionVars, uiVars>>

\* a pending timer expires: tooltip_suggestion.place_forget()
TimerExpires(job) ==
  /\ job \in timers
  /\ timers' = timers \ {job}
  /\ tooltipVisible' = FALSE
  /\ Report("place_forget", "ok")
  /\ UNCHANGED <<storeVars, fetched, formVars, backupVars, uiVars, suggestionIndices,
                 suggestionText, hoveredWord, editsSinceHover, hideJob, nextJob,
                 cancelledJobs>>

\* <Button-1> on the tooltip, which is there to click
TooltipClick ==
  LET r == replace_with_suggestion(NoteView) IN
  /\ tooltipVisible
  /\ Len(r.note) <= MaxNoteLen
  /\ note' = r.note
  /\ marks' = r.marks
  /\ tooltipVisible' = r.visible
  /\ Report("replace_with_suggestion", IF r.replaced THEN "replaced" ELSE "ignored")
  /\ UNCHANGED <<storeVars, fetched, form, backupVars, uiVars, suggestionIndices,
                 suggestionText, hoveredWord, editsSinceHover, timerVars>>

\* the entries of the form are typed in; the rating and the status are set
\* by clicks only
TypeEntries(e) ==
  /\ form' = [form EXCEPT !.name = e.name, !.surname = e.surname,
                           !.email = e.email, !.number = e.number]
  /\ UNCHANGED <<storeVars, reportVars, fetched, note, marks, backupVars,
                 tooltipVars, uiVars>>

\* a click on a star: set_rating(value), which ends in root.mainloop() and so
\* does not return while the window lives
SetRating(value) ==
  /\ loopDepth < MaxLoopDepth
  /\ form' = [form EXCEPT !.rating = value]
  /\ stars' = StarImages(value)
  /\ loopDepth' = loopDepth + 1
  /\ Report("set_rating", "ok")
  /\ UNCHANGED <<storeVars, fetched, note, marks, backupVars, tooltipVars, sunken,
                 gridVars>>

\* a click on a status button: set_status(color)
SetStatus(color) ==
  /\ form' = [form EXCEPT !.status = color]
  /\ sunken' = {color}
  /\ Report("set_status", "ok")
  /\ UNCHANGED <<storeVars, fetched, note, marks, backupVars, tooltipVars, stars,
                 loopDepth, gridVars>>

GridReport(op, r) ==
  /\ lastOp' = op
  /\ outcome' = OutcomeOf(r)
  /\ ignored' = 0
  /\ shown' = ""

\* the user types into the search entries
TypeSearch(s) ==
  /\ search' = s
  /\ UNCHANGED <<storeVars, reportVars, fetched, formVars, backupVars,
                 tooltipVars, widgetVars, tree, selection>>

\* the "Search" button
PerformSearch ==
  LET p == perform_search(World, search) IN
  /\ SetWorld(AfterCall(World, p.run))
  /\ GridReport("perform_search", p.run)
  /\ tree' = p.tree
  /\ selection' = 0
  /\ UNCHANGED <<fetched, formVars, backupVars, tooltipVars, widgetVars,
                 search>>

\* a click on row k of the grid
SelectRow(k) ==
  /\ k \in 1..Len(tree)
  /\ selection' = k
  /\ UNCHANGED <<storeVars, reportVars, fetched, formVars, backupVars,
                 tooltipVars, widgetVars, search, tree>>

\* a double click on a cell of row k, a new value typed, <Return>
InlineEdit(k, column, new_value) ==
  /\ k \in 1..Len(tree)
  /\ column \in EditableColumns
  /\ KeyValidated(column) => is_valid_phone_input(new_value)
  /\ tree' = on_double_click(tree, k, column, new_value)
  /\ UNCHANGED <<storeVars, reportVars, fetched, formVars, backupVars,
                 tooltipVars, widgetVars, search, selection>>

\* the "Save Changes" button
SaveChanges ==
  LET r == save_changes(World, tree) IN
  /\ seq + CountNoId(tree) <= MaxSeq
  /\ SetWorld(AfterCall(World, r))
  /\ GridReport("save_changes", r)
  /\ UNCHANGED <<fetched, formVars, backupVars, tooltipVars, uiVars>>

\* the "Edit Selected" button, the entries of the window changed to e, and
\* its "Save" button
EditSelected(e) ==
  /\ selection # 0
  /\ LET r == edit_selected(World, tree, selection, e) IN
     /\ SetWorld(AfterCall(World, r.run))
     /\ GridReport("edit_selected", r.run)
     /\ tree' = r.tree
  /\ UNCHANGED <<fetched, formVars, backupVars, tooltipVars, widgetVars,
                 search, selection>>

\* the "Delete Selected Camper" button
DeleteSelectedCamper ==
  /\ selection # 0
  /\ LET r == delete_selected_camper(World, tree, selection, search) IN
     /\ SetWorld(r.world)
     /\ lastOp' = "delete_selected_camper"
     /\ outcome' = IF r.called THEN OutcomeOf(r.run) ELSE "ignored"
     /\ ignored' = 0
     /\ shown' = ""
     /\ tree' = r.tree
     /\ selection' = r.selection
  /\ UNCHANGED <<fetched, formVars, backupVars, tooltipVars, widgetVars,
                 search>>


(***************************************************************************)
(* Specifications                                                          *)
(***************************************************************************)
\* the store operations of logic.py, called in any order with any input
Next ==
  \/ \E u \in Users : AddCamper(u)
  \/ \E i \in Ids, u \in Users : UpdateCamper(i, u)
  \/ \E i \in Ids : DeleteCamper(i)
  \/ \E n \in {Number1, Number2, Number3} : DeleteCamperByNumber(n)
  \/ \E b \in Batches : SaveAllCampers(b)
  \/ ReclaimConnection

Spec == Init /\ [][Next]_vars

\* the "Add Camper" form: filling it, submitting it, and deleting records
SubmitNext ==
  \/ \E f \in FormInputs, n \in NoteInputs : FillForm(f, n)
  \/ HandleSubmit
  \/ \E i \in Ids : DeleteCamper(i)
  \/ ReclaimConnection

SubmitSpec == Init /\ [][SubmitNext]_vars

\* searching the store
FetchNext ==
  \/ \E u \in SearchUsers : AddCamper(u)
  \/ \E t \in SearchTerms, c \in SearchColumns : FetchCampers(t, c)
  \/ \E i \in Ids : DeleteCamper(i)
  \/ ReclaimConnection

FetchSpec == Init /\ [][FetchNext]_vars

\* backing the store file up while records are added and time passes
BackupNext ==
  \/ \E u \in Users : AddCamper(u)
  \/ RunBackup
  \/ Tick
  \/ RemoveStoreFile
  \/ ReclaimConnection

BackupSpec == Init /\ [][BackupNext]_vars

\* the form: its entries, the stars, the status buttons and Submit
FormNext ==
  \/ \E e \in EntryInputs : TypeEntries(e)
  \/ \E v \in StarClicks \cap {5} : SetRating(v)
  \/ \E c \in Colours : SetStatus(c)
  \/ HandleSubmit
  \/ ReclaimConnection

FormSpec == Init /\ [][FormNext]_vars

\* typing into the note
NoteNext ==
  \/ \E c \in NoteChars, p \in 0..MaxNoteLen : KeyPress(c, p)
  \/ \E p \in 1..MaxNoteLen : BackSpace(p)

NoteSpec == Init /\ [][NoteNext]_vars

\* the pointer over the note and the tooltip, while words are typed
TooltipNext ==
  \/ \E c \in {"b", " "} : KeyPress(c, Len(note))
  \/ \E i \in 1..MaxNoteLen : DisplayWordSuggestion(i)
  \/ HideWordSuggestion
  \/ TooltipLeave
  \/ TooltipEnter
  \/ \E j \in 1..MaxJobs : TimerExpires(j)

TooltipSpec == Init /\ [][TooltipNext]_vars

\* typed while the tooltip is up
SuggestChars == {"b", "B", " "}

\* hovering a marked word and clicking its suggestion, while the note is
\* typed in at either end
SuggestNext ==
  \/ \E c \in SuggestChars, p \in {0, Len(note)} :
       /\ Len(note) < MaxSuggestLen
       /\ editsSinceHover < MaxStaleEdits
       /\ KeyPress(c, p)
  \/ \E p \in {1, Len(note)} : editsSinceHover < MaxStaleEdits /\ BackSpace(p)
  \/ \E i \in 1..MaxSuggestLen : DisplayWordSuggestion(i)
  \/ Len(replace_with_suggestion(NoteView).note) <= MaxSuggestLen /\ TooltipClick

SuggestSpec == Init /\ [][SuggestNext]_vars

\* words typed one after the other, hovered and their suggestion clicked
ClickNext ==
  \/ \E c \in SuggestChars :
       Len(note) < MaxSuggestLen /\ KeyPress(c, Len(note))
  \/ \E i \in 1..MaxSuggestLen : DisplayWordSuggestion(i)
  \/ Len(replace_with_suggestion(NoteView).note) <= MaxSuggestLen /\ TooltipClick

ClickSpec == Init /\ [][ClickNext]_vars

\* the results grid: records submitted, searched, edited in the grid and in
\* the edit window, saved and deleted
GridNext ==
  \/ \E f \in GridForms : FillForm(f, <<>>)
  \/ seq < MaxGridRecords /\ HandleSubmit
  \/ \E s \in SearchInputs : TypeSearch(s)
  \/ PerformSearch
  \/ \E k \in 1..MaxGridRecords : SelectRow(k)
  \/ \E k \in 1..MaxGridRecords, c \in CellInputs : InlineEdit(k, c[1], c[2])
  \/ SaveChanges
  \/ /\ selection # 0
     /\ \E e \in EditInputs(EditWindow(tree[selection])) : EditSelected(e)
  \/ DeleteSelectedCamper
  \/ ReclaimConnection

GridSpec == Init /\ [][GridNext]_vars

(***************************************************************************)
(* Properties of the store                                                 *)
(***************************************************************************)
\* the committed rows a call leaves behind, made on world w
RowsAfter(w, r) == AfterCall(w, r).rows

SaveAllOn(w, items) == save_all_campers(DbOf(w), Blocked(w), items)

AllNumeric(items) ==
  \A k \in 1..Len(items) : ParseFloat(items[k].rating) # NotANumber

\* skip-and-continue as section 4.2 words it: every item is applied on its
\* own, an item that fails is left out
RECURSIVE EachItemAlone(_, _)
EachItemAlone(db, items) ==
  IF items = <<>> THEN db
  ELSE LET r == SaveItem(db, Head(items)) IN
       EachItemAlone(IF r.err = "none" THEN [rows |-> r.rows, seq |-> r.seq]
                     ELSE db, Tail(items))

\* C1 (as claimed): on a writable store, whatever item of a batch of
\* save_all_campers fails on the uniqueness of number, the call leaves
\* every other item of the batch persisted: the stored rows are those of
\* applying each item on its own and skipping the failing ones.
C1_FailingItemIsolated ==
  \A b \in Batches :
    (~Blocked(World) /\ AllNumeric(b))
      => RowsAfter(World, SaveAllOn(World, b)) = EachItemAlone(DbOf(World), b).rows

\* rows a call added, as a set of column values
AddedRows(w, r) ==
  {RowsAfter(w, r)[i] : i \in DOMAIN RowsAfter(w, r) \ DOMAIN w.rows}

KeepsStoredRows(w, r) ==
  \A i \in DOMAIN w.rows :
    i \in DOMAIN RowsAfter(w, r) /\ RowsAfter(w, r)[i] = w.rows[i]

StoredNumbers(w) == {w.rows[i].number : i \in DOMAIN w.rows}

\* b is N id-less items with distinct numbers new to the store, plus the
\* item at position d whose number is stored or carried by another item
OneDuplicateAt(w, b, d) ==
  /\ d \in 1..Len(b)
  /\ \A k \in 1..Len(b) : b[k].id = NoId
  /\ \A k \in 1..Len(b) \ {d} : b[k].number \notin StoredNumbers(w)
  /\ \A k, l \in 1..Len(b) \ {d} : k # l => b[k].number # b[l].number
  /\ \/ b[d].number \in StoredNumbers(w)
     \/ \E k \in 1..Len(b) \ {d} : b[k].number = b[d].number

\* C2 (as claimed): on a writable store, a batch of N valid id-less items
\* and one duplicate, in any order, inserts exactly the N valid items,
\* raises nothing and changes no stored row.
C2_ExactlyTheValidInserted ==
  \A b \in Batches : \A d \in 1..Len(b) :
    (~Blocked(World) /\ OneDuplicateAt(World, b, d))
      => LET r == SaveAllOn(World, b) IN
         /\ r.err = "none"
         /\ KeepsStoredRows(World, r)
         /\ AddedRows(World, r) = {ItemRow(b[k]) : k \in 1..Len(b) \ {d}}

\* positions of a batch that carry a number for the first time
FirstWithNumber(w, b) ==
  {k \in 1..Len(b) :
     /\ b[k].number \notin StoredNumbers(w)
     /\ \A j \in 1..(k - 1) : b[j].number # b[k].number}

\* C2 (amended): such a batch raises nothing, changes no stored row and
\* inserts exactly N rows, one per number of the batch that is new to the
\* store, taken from the first item in batch order that carries the number;
\* on a store that cannot be written a non-empty batch raises
\* OperationalError and the store stays as it was.
C2_FirstOfEachNumberInserted ==
  \A b \in Batches : \A d \in 1..Len(b) :
    OneDuplicateAt(World, b, d)
      => LET r == SaveAllOn(World, b) IN
         IF Blocked(World)
         THEN r.err = "OperationalError" /\ RowsAfter(World, r) = campers
         ELSE /\ r.err = "none"
              /\ KeepsStoredRows(World, r)
              /\ AddedRows(World, r) =
                   {ItemRow(b[k]) : k \in FirstWithNumber(World, b)}
              /\ Cardinality(DOMAIN RowsAfter(World, r) \ DOMAIN campers)
                   = Len(b) - 1
              /\ IgnoredBy(DbOf(World), r) = 1

\* witness of C2: save_all_campers has returned after one of its inserts
\* was ignored, and rows are stored
C2_DuplicateSkipped ==
  /\ lastOp = "save_all_campers"
  /\ outcome = "ok"
  /\ ignored = 1
  /\ campers # <<>>

\* C3: no two stored rows have the same number.
C3_NumbersUnique ==
  \A i, j \in DOMAIN campers : i # j => campers[i].number # campers[j].number

\* witness of C3: two rows are stored and the last call failed on the
\* uniqueness of number
C3_AfterRejectedDuplicate ==
  /\ Cardinality(DOMAIN campers) >= 2
  /\ outcome = "IntegrityError"

\* C6: for a batch in which every item has an id, applying it again right
\* after it was applied leaves the stored rows as the first application
\* left them.
C6_UpdateBatchIdempotent ==
  \A b \in Batches :
    (\A k \in 1..Len(b) : b[k].id # NoId)
      => LET once == AfterCall(World, SaveAllOn(World, b)) IN
         RowsAfter(once, SaveAllOn(once, b)) = once.rows

\* witness of C6: a batch of save_all_campers has been applied whose update
\* collided on number, with two rows stored
C6_UpdateCollided ==
  /\ lastOp = "save_all_campers"
  /\ outcome = "IntegrityError"
  /\ Cardinality(DOMAIN campers) >= 2

(***************************************************************************)
(* Properties of the submit handler                                        *)
(***************************************************************************)
\* C4 (as claimed): a submit whose number is already stored is a handled
\* outcome: no constraint violation leaves handle_submit as an exception.
C4_DuplicateSubmitHandled ==
  lastOp = "handle_submit" => outcome # "IntegrityError"

\* the validation failures as the claim lists them
FailsValidation(f) ==
  \/ Strip(f.name) = <<>>
  \/ Strip(f.surname) = <<>>
  \/ \E k \in 1..Len(f.number) :
       f.number[k] \notin {"0", "1", "2", "3", "4", "5", "6", "7", "8", "9",
                           "-", "+", " ", "(", ")"}
  \/ Len(f.number) > 21
  \/ f.rating < 0
  \/ f.rating > 10

ContainsFold(text, term) ==
  \E k \in 1..(Len(text) - Len(term) + 1) :
    Lower(SubSeq(text, k, k + Len(term) - 1)) = Lower(term)

FetchedIds(f) == {f.result[k].id : k \in 1..Len(f.result)}

\* C7 (as claimed): with a term and a column, fetch_campers returns exactly
\* the stored records whose value in the column contains the term as a
\* case-insensitive substring, whatever the term; without a filter it
\* returns every stored record.
C7_FetchIsSubstringMatch ==
  \A t \in SearchTerms, c \in SearchColumns :
    LET f == fetch_campers(World, t, c) IN
    /\ f.run.err = "none"
    /\ \A k \in 1..Len(f.result) :
         f.result[k] = CamperDict(f.result[k].id, campers[f.result[k].id])
    /\ FetchedIds(f) =
         IF t # <<>>
         THEN {i \in DOMAIN campers : ContainsFold(campers[i][c], t)}
         ELSE DOMAIN campers

(***************************************************************************)
(* Properties of the backup                                                *)
(***************************************************************************)
\* C8: without the store file the backup fails with FileNotFoundError,
\* writes no file and the failure is shown; with the store file it leaves
\* in the backups directory a file with the content of the store file, and
\* the store file as it was.
C8_BackupCopiesOrFails ==
  LET r == run_backup(World, backups, clock) IN
  IF dbState = "absent"
  THEN /\ r.err = "FileNotFoundError"
       /\ r.files = backups
       /\ r.shown = "Backup Failed"
  ELSE /\ r.err = "none"
       /\ \E t \in DOMAIN r.files : r.files[t] = StoreFile(World)
       /\ r.store = StoreFile(World)
       /\ r.shown = "Backup Successful"

\* witness of C8: a backup has just failed for want of the store file, and
\* the backups directory holds an earlier backup of a store with records
C8_FailedAfterBackup ==
  /\ lastOp = "run_backup"
  /\ shown = "Backup Failed"
  /\ dbState = "absent"
  /\ \E t \in DOMAIN backups : backups[t].rows # <<>>

(***************************************************************************)
(* C9  Under any interleaving of the tooltip events at most one hide timer *)
(* is pending: the pending timer is the one kept in _tooltip_hide_job,     *)
(* and a timer that was cancelled is not pending, so it cannot expire.     *)
(***************************************************************************)
C9_OneHideTimerPending ==
  /\ Cardinality(timers) <= 1
  /\ timers \subseteq {hideJob}
  /\ timers \cap cancelledJobs = {}

\* a hide was scheduled while an earlier one was pending, and replaced it
C9_HideRescheduled ==
  /\ lastOp \in {"hide_word_suggestion", "schedule_hide_tooltip"}
  /\ outcome = "rescheduled"
  /\ cancelledJobs # {}
  /\ timers = {hideJob}

(***************************************************************************)
(* C10  check_spelling marks exactly the spans of the whitespace-delimited *)
(* tokens whose lowercased form is not the top lookup candidate: each such *)
(* token over its own span, nothing outside one.                           *)
(***************************************************************************)
\* the spans <<first, last>> of the whitespace-delimited tokens of a text
TokenSpans(text) ==
  {sp \in (1..Len(text)) \X (1..Len(text)) :
     /\ sp[1] <= sp[2]
     /\ \A m \in sp[1]..sp[2] : ~IsSpace(text[m])
     /\ (sp[1] = 1 \/ IsSpace(text[sp[1] - 1]))
     /\ (sp[2] = Len(text) \/ IsSpace(text[sp[2] + 1]))}

FlaggedPositions(text) ==
  UNION {sp[1]..sp[2] : sp \in {t \in TokenSpans(text) :
                                  Unknown(SubSeq(text, t[1], t[2]))}}

C10_MarksAreFlaggedSpans == check_spelling(note) = FlaggedPositions(note)


(***************************************************************************)
(* C11  The replacement follows the casing of the original: all uppercase  *)
(* gives the suggestion in upper case, title case gives it capitalized,    *)
(* all lowercase gives it in lower case, anything else gives it unchanged, *)
(* and exactly one of the four cases applies to the original.              *)
(***************************************************************************)
CasesOf(original) ==
  {c \in {"upper", "title", "lower", "mixed"} :
     \/ c = "upper" /\ isupper(original)
     \/ c = "title" /\ istitle(original)
     \/ c = "lower" /\ islower(original)
     \/ c = "mixed" /\ ~isupper(original) /\ ~istitle(original)
                    /\ ~islower(original)}

CasingFollows(original, suggestion, replacement) ==
  /\ isupper(original) => replacement = Upper(suggestion)
  /\ istitle(original) => replacement = Capitalize(suggestion)
  /\ islower(original) => replacement = Lower(suggestion)
  /\ "mixed" \in CasesOf(original) => replacement = suggestion
  /\ Cardinality(CasesOf(original)) = 1

C11_CasingFollowsOriginal ==
  (tooltipVisible /\ Actionable(NoteView)) =>
    LET r == replace_with_suggestion(NoteView) IN
    CasingFollows(r.removed, suggestionText, r.replacement)


(***************************************************************************)
(* C12  When lookup finds nothing for the hovered word the tooltip shows   *)
(* "No suggestion", and a click on the tooltip in that state, or before    *)
(* any hover has recorded a suggestion, leaves the note, its misspelled    *)
(* marks and the visibility of the tooltip as they are.                    *)
(***************************************************************************)
C12_SentinelNotActionable ==
  /\ (lastOp = "display_word_suggestion" /\ lookup(Strip(hoveredWord)) = <<>>)
       => (suggestionText = NoSuggestion /\ tooltipVisible)
  /\ suggestionText \in {<<>>, NoSuggestion} =>
       LET r == replace_with_suggestion(NoteView) IN
       r.note = note /\ r.marks = marks /\ r.visible = tooltipVisible

\* the tooltip showing "No suggestion" was clicked
C12_SentinelClicked ==
  /\ lastOp = "replace_with_suggestion"
  /\ outcome = "ignored"
  /\ suggestionText = NoSuggestion
  /\ tooltipVisible
  /\ marks # {}

(***************************************************************************)
(* C20  Whenever a click on the tooltip replaces text, the text removed is *)
(* the word the displayed suggestion was computed for, whatever was typed  *)
(* or deleted in the note since the hover.                                 *)
(***************************************************************************)
C20_ReplacesHoveredWord ==
  (tooltipVisible /\ Actionable(NoteView)) =>
    replace_with_suggestion(NoteView).removed = hoveredWord


(***************************************************************************)
(* C13  Every handler returns to the one event loop started at the entry   *)
(* point: no event loop is ever running inside another, however many       *)
(* clicks there were.                                                      *)
(***************************************************************************)
C13_HandlersReturnToTheLoop == loopDepth = 1

(***************************************************************************)
(* C17  At most one status button is shown selected, a button is shown     *)
(* selected exactly when the status value is its colour, and none is when  *)
(* the status value is empty.                                              *)
(***************************************************************************)
C17_ToggleAgreesWithStatus ==
  /\ Cardinality(sunken) <= 1
  /\ \A c \in Colours : c \in sunken <=> form.status = c
  /\ form.status = <<>> => sunken = {}


(***************************************************************************)
(* C14  Every store operation closes the connection it opened before it    *)
(* ends, whatever its outcome: between two operations no connection is     *)
(* open and no uncommitted transaction holds the write lock.               *)
(***************************************************************************)
C14_NoConnectionLeftOpen == ~leaked /\ ~locked

(***************************************************************************)
(* C16  Every successful create_db_backup leaves a backup file that was    *)
(* not there before, and every backup file that was there before with the  *)
(* content it had, also when the last backup was taken in the same second  *)
(* of the clock and the store has changed since.                           *)
(***************************************************************************)
C16_BackupsAreImmutable ==
  LET r == create_db_backup(World, backups, clock) IN
  r.err = "none" =>
    /\ DOMAIN r.files # DOMAIN backups
    /\ \A t \in DOMAIN backups : r.files[t] = backups[t]

(***************************************************************************)
(* C15  Whatever was submitted in the form, edited in the grid and saved   *)
(* with "Save Changes", saved from the edit window or deleted, the number  *)
(* of every stored record is made of digits and - + space ( ) only and is  *)
(* at most 21 characters long.                                             *)
(***************************************************************************)
C15_StoredNumbersValid ==
  \A i \in DOMAIN campers :
    /\ is_valid_phone_input(campers[i].number)
    /\ Len(campers[i].number) <= MaxNumberLen

(***************************************************************************)
(* C18  The "Save" button of the edit window changes in the store no       *)
(* record but the one with the id of the edited row: every other stored    *)
(* record stays as it is, whatever unsaved edits the other rows of the     *)
(* grid hold.                                                              *)
(***************************************************************************)
C18_EditSavesOnlyTheRow ==
  selection # 0 =>
    \A e \in EditInputs(EditWindow(tree[selection])) :
      LET after == RowsAfter(World, edit_selected(World, tree, selection, e).run)
      IN \A i \in DOMAIN campers \ {tree[selection].id} :
           i \in DOMAIN after /\ after[i] = campers[i]

(***************************************************************************)
(* C19  On a writable store delete_selected_camper removes the record with *)
(* the id of the selected row and leaves every other record, whatever the  *)
(* number cell of the row shows: an edited number, or none.                *)
(***************************************************************************)
C19_DeletesTheSelectedRecord ==
  (selection # 0 /\ ~Blocked(World)) =>
    LET after == delete_selected_camper(World, tree, selection, search).world.rows
    IN after = [i \in DOMAIN campers \ {tree[selection].id} |-> campers[i]]

====
